---------------------------- MODULE Spec2Model ----------------------------
(* The recurrence builder store of src/src/store/builderStore.tsx: the     *)
(* zustand store that keeps a structured recurrence description, its       *)
(* derived rule text, and the inbound load of a rule text.                 *)
(*                                                                         *)
(* Encoding.  A nullable value is a sequence of length 0 (null/undefined)  *)
(* or 1 (the value).  A calendar date is a whole number of days; "plus one *)
(* day" is +1.  A rule text is the record of its clauses: the by-clauses   *)
(* are the comma separated value lists, an absent clause the empty list.   *)
(*                                                                         *)
(* Besides the store's fields there are two variables of observation:      *)
(* notified, the calls of the registered onChange made by the last call of *)
(* a handler (callback and text, in order), and lastCall, that handler and *)
(* its argument.  For validateForm, which waits for the schema's answer,   *)
(* there are two more, kept by the two steps of a validateForm call        *)
(* (ValidateFormCall, ValidateFormSettle): pending, the answers the calls  *)
(* in flight are waiting for, and invoked, the error map of the call       *)
(* invoked last.  thrown tells whether the last call ended by an          *)
(* exception of the notifier.                                              *)
EXTENDS Integers, Sequences, FiniteSets, TLC

VARIABLES repeatDetails, frequency, startDate, validationErrors, endDetails,
          RRuleString, radioValue, onChange, notified, lastCall,
          pending, invoked, thrown

vars == <<repeatDetails, frequency, startDate, validationErrors, endDetails,
          RRuleString, radioValue, onChange, notified, lastCall,
          pending, invoked, thrown>>

-----------------------------------------------------------------------------
(* Bounds of the model. *)
MaxDate == 2
MaxCount == 1
MaxInterval == 2
MaxLen == 2
MaxViolations == 2
MaxPending == 2

(* rrule's Frequency enumeration (numeric: YEARLY is 0). *)
YEARLY == 0
MONTHLY == 1
WEEKLY == 2

Null == <<>>
Some(x) == <<x>>

Frequencies == {YEARLY, MONTHLY, WEEKLY}
Dates == 1..MaxDate
Counts == 1..MaxCount
Callbacks == {"cb1", "cb2"}
(* A callback of the host that throws when it is called. *)
ThrowingCallbacks == {"cbThrows"}
RadioValues == {Null, Some("BYMONTH"), Some("BYMONTHDAY"), Some("BYSETPOS")}

(* The list 1, 2, .., n and the weekday list MO, TU, .. of length n. *)
Ints(n) == [i \in 1..n |-> i]
WeekdayNames == <<"MO", "TU", "WE", "TH", "FR", "SA", "SU">>
Days(n) == [i \in 1..n |-> WeekdayNames[i]]

-----------------------------------------------------------------------------
(* The store's data. *)
baseRepeatDetails ==
  [interval |-> Some(1), bySetPos |-> <<>>, byMonth |-> <<>>,
   byMonthDay |-> <<>>, byDay |-> <<>>]

EndNever == [endingType |-> "NEVER", endDate |-> Null, occurrences |-> Null]
EndOn(d) == [endingType |-> "ON", endDate |-> Some(d), occurrences |-> Null]
EndAfter(n) == [endingType |-> "AFTER", endDate |-> Null, occurrences |-> Some(n)]

initialState ==
  [repeatDetails |-> baseRepeatDetails,
   frequency |-> WEEKLY,
   startDate |-> Null,
   validationErrors |-> {},
   endDetails |-> EndNever,
   radioValue |-> Null]

(* The store as one value: the state the handlers read with get(). *)
Store ==
  [repeatDetails |-> repeatDetails, frequency |-> frequency,
   startDate |-> startDate, validationErrors |-> validationErrors,
   endDetails |-> endDetails, RRuleString |-> RRuleString,
   radioValue |-> radioValue, onChange |-> onChange, notified |-> notified,
   thrown |-> thrown]


-----------------------------------------------------------------------------
(* The rule text and the two external functions the store calls.           *)

(* utils/buildRRuleString: the serializer.  One clause per non-empty       *)
(* field; the termination clause follows the end condition's tag.          *)
utilBuildRRuleString(freq, start, details, endD) ==
  [ok |-> TRUE,
   freq |-> Some(freq),
   dtstart |-> start,
   until |-> IF endD.endingType = "ON" THEN endD.endDate ELSE Null,
   count |-> IF endD.endingType = "AFTER" THEN endD.occurrences ELSE Null,
   interval |-> details.interval,
   bysetpos |-> details.bySetPos,
   bymonth |-> details.byMonth,
   bymonthday |-> details.byMonthDay,
   byday |-> [i \in 1..Len(details.byDay) |-> [wd |-> details.byDay[i], n |-> 0]]]

(* rrule's parsed options: a by-option is undefined, one number, or an     *)
(* array of numbers.                                                       *)
Undefined == [kind |-> "undefined", val |-> <<>>]
Number(v) == [kind |-> "number", val |-> <<v>>]
Array(vs) == [kind |-> "array", val |-> vs]

(* rrule's parseNumber: a value without a comma is one number. *)
parseNumber(values) ==
  IF Len(values) = 0 THEN Undefined
  ELSE IF Len(values) = 1 THEN Number(values[1])
  ELSE Array(values)

WeekdayIndex(name) == CHOOSE i \in 1..Len(WeekdayNames) : WeekdayNames[i] = name

(* rrule's parseWeekday: always an array of rrule Weekday objects          *)
(* (weekday number counted from 0, n the leading ordinal or 0).            *)
parseWeekday(values) ==
  IF Len(values) = 0 THEN Undefined
  ELSE Array([i \in 1..Len(values) |->
               [weekday |-> WeekdayIndex(values[i].wd) - 1, n |-> values[i].n]])

(* RRule.parseString: throws on a malformed text (ok = FALSE). *)
parseString(text) ==
  [ok |-> text.ok,
   freq |-> text.freq,
   dtstart |-> text.dtstart,
   until |-> text.until,
   count |-> text.count,
   interval |-> text.interval,
   bysetpos |-> parseNumber(text.bysetpos),
   bymonth |-> parseNumber(text.bymonth),
   bymonthday |-> parseNumber(text.bymonthday),
   byweekday |-> parseWeekday(text.byday)]

(* JavaScript truthiness of a by-option and of a nullable number. *)
Truthy(v) == v.kind = "array" \/ (v.kind = "number" /\ v.val[1] # 0)
TruthyNum(o) == o # Null /\ o[1] # 0

-----------------------------------------------------------------------------
(* The store's handlers, as functions from the store to the store.         *)

(* Mutant: an unchanged rule text is not announced. *)
buildRRuleStringIfChanged(s) ==
  LET output == utilBuildRRuleString(s.frequency, s.startDate,
                                     s.repeatDetails, s.endDetails)
  IN [s EXCEPT !.RRuleString = Some(output),
               !.notified = IF s.onChange # Null /\ s.RRuleString # Some(output)
                            THEN Append(@, [cb |-> s.onChange[1], text |-> output])
                            ELSE @,
               !.thrown = s.onChange # Null /\ s.onChange[1] \in ThrowingCallbacks]

(* buildRRuleString (the store's): serialize, store, notify.  Nothing      *)
(* catches what the notifier throws.                                       *)
buildRRuleString(s) ==
  LET output == utilBuildRRuleString(s.frequency, s.startDate,
                                     s.repeatDetails, s.endDetails)
  IN [s EXCEPT !.RRuleString = Some(output),
               !.notified = IF s.onChange # Null
                            THEN Append(@, [cb |-> s.onChange[1], text |-> output])
                            ELSE @,
               !.thrown = s.onChange # Null /\ s.onChange[1] \in ThrowingCallbacks]

(* Mutant: storing the hint rebuilds the rule text. *)
setRadioValueRebuild(s, r) == buildRRuleString([s EXCEPT !.radioValue = r])

setRadioValue(s, r) == [s EXCEPT !.radioValue = r]

(* Mutant: an earlier registration is kept. *)
setOnChangeKeepFirst(s, cb) ==
  IF s.onChange # Null THEN s ELSE [s EXCEPT !.onChange = Some(cb)]

setOnChange(s, cb) == [s EXCEPT !.onChange = Some(cb)]

(* Mutant: a change of frequency drops the hint. *)
setFrequencyClearsHint(s, f) ==
  buildRRuleString([s EXCEPT !.frequency = f,
                             !.repeatDetails = initialState.repeatDetails,
                             !.validationErrors = {},
                             !.radioValue = Null])

(* Mutant: the reset is skipped when the frequency does not change. *)
setFrequencyIfChanged(s, f) ==
  IF f = s.frequency THEN buildRRuleString(s)
  ELSE buildRRuleString([s EXCEPT !.frequency = f,
                                  !.repeatDetails = initialState.repeatDetails,
                                  !.validationErrors = {}])

setFrequency(s, f) ==
  buildRRuleString([s EXCEPT !.frequency = f,
                             !.repeatDetails = initialState.repeatDetails,
                             !.validationErrors = {}])

(* Mutant: the end date is never moved. *)
setStartDateNoShift(s, d) ==
  buildRRuleString([s EXCEPT !.startDate = d, !.validationErrors = {}])

(* Mutant: the end date is moved to the start date itself. *)
setStartDateSameDay(s, d) ==
  LET endDate == s.endDetails.endDate
      s1 == IF endDate # Null /\ d # Null /\ d[1] > endDate[1]
            THEN [s EXCEPT !.endDetails.endDate = Some(d[1])]
            ELSE s
  IN buildRRuleString([s1 EXCEPT !.startDate = d, !.validationErrors = {}])

setStartDate(s, d) ==
  LET endDate == s.endDetails.endDate
      s1 == IF endDate # Null /\ d # Null /\ d[1] > endDate[1]
            THEN [s EXCEPT !.endDetails.endDate = Some(d[1] + 1)]
            ELSE s
  IN buildRRuleString([s1 EXCEPT !.startDate = d, !.validationErrors = {}])

(* Mutant: an end date before the start date is moved past it. *)
setEndDetailsClamped(s, details) ==
  buildRRuleString(
    [s EXCEPT !.endDetails =
       IF details.endDate # Null /\ s.startDate # Null
            /\ details.endDate[1] < s.startDate[1]
       THEN [details EXCEPT !.endDate = Some(s.startDate[1] + 1)]
       ELSE details])

setEndDetails(s, details) ==
  buildRRuleString([s EXCEPT !.endDetails = details])

(* Mutant: a new descriptor clears the validation errors. *)
setRepeatDetailsClearErrors(s, details) ==
  buildRRuleString([s EXCEPT !.repeatDetails = details, !.validationErrors = {}])

(* Mutant: the rule text is not rebuilt. *)
setRepeatDetailsNoRebuild(s, details) ==
  [s EXCEPT !.repeatDetails = details]

setRepeatDetails(s, details) ==
  buildRRuleString([s EXCEPT !.repeatDetails = details])

(* The error map of validateForm: one entry per path, a later violation of *)
(* the same path replacing the earlier one (the reduce of lines 106-112).  *)
RECURSIVE reduceErrors(_, _)
reduceErrors(acc, inner) ==
  IF inner = <<>> THEN acc
  ELSE reduceErrors({e \in acc : e[1] # Head(inner).path}
                      \cup {<<Head(inner).path, Head(inner).message>>},
                    Tail(inner))

(* Mutant: a failure of the schema's check is passed on, not captured. *)
validateFormNoCapture(s, inner) ==
  IF s.frequency = 0
  THEN [s EXCEPT !.validationErrors = {<<"frequency", "Frequency is required">>}]
  ELSE IF inner = <<>>
  THEN [s EXCEPT !.validationErrors = {}]
  ELSE s

(* validateForm, with the schema's answer (the list of violations, empty   *)
(* when the descriptor is valid) as its input.  "!frequency" is true of    *)
(* YEARLY, which is 0.                                                     *)
validateForm(s, inner) ==
  IF s.frequency = 0
  THEN [s EXCEPT !.validationErrors = {<<"frequency", "Frequency is required">>}]
  ELSE IF inner = <<>>
  THEN [s EXCEPT !.validationErrors = {}]
  ELSE [s EXCEPT !.validationErrors = reduceErrors({}, inner)]

(* What validateForm's promise settles to (lines 98, 104, 114): it has no  *)
(* path that rejects when the schema answers as above.                     *)
validateFormResolves(s, inner) ==
  IF s.frequency = 0 THEN "false"
  ELSE IF inner = <<>> THEN "true"
  ELSE "false"

(* validateForm up to its await (lines 95-100): the test of the frequency, *)
(* which answers at once, or else the schema's check is started.           *)
validateFormCall(s) ==
  IF s.frequency = 0
  THEN [s EXCEPT !.validationErrors = {<<"frequency", "Frequency is required">>}]
  ELSE s

(* validateForm from its await on (lines 102-114), when the schema's       *)
(* answer arrives: the error map is replaced by that of the answer.        *)
validateFormSettle(s, inner) ==
  IF inner = <<>>
  THEN [s EXCEPT !.validationErrors = {}]
  ELSE [s EXCEPT !.validationErrors = reduceErrors({}, inner)]

(* Weekday[day] of line 206: the enumeration looked up by the rrule        *)
(* weekday's text, which carries the ordinal when there is one.            *)
WeekdayLookup(day) ==
  IF day.n = 0 THEN WeekdayNames[day.weekday + 1] ELSE "undefined"

(* A by-option as the descriptor's list (lines 181-221). *)
toList(v) ==
  IF ~Truthy(v) THEN <<>>
  ELSE IF v.kind # "array" THEN <<v.val[1]>>
  ELSE v.val

toByDay(v) ==
  IF ~Truthy(v) THEN <<>>
  ELSE IF v.kind # "array" THEN <<v.val[1]>>
  ELSE [i \in 1..Len(v.val) |-> WeekdayLookup(v.val[i])]

(* Mutant: for MONTHLY the set-position test comes first. *)
loadFrequencyMonthlySwapped(s, parsedObj) ==
  IF parsedObj.freq = Null THEN s
  ELSE LET s1 == setFrequency(s, parsedObj.freq[1])
       IN IF s1.thrown THEN s1
          ELSE IF parsedObj.freq[1] = YEARLY
          THEN IF Truthy(parsedObj.byweekday) \/ Truthy(parsedObj.bysetpos)
               THEN [s1 EXCEPT !.radioValue = Some("BYSETPOS")]
               ELSE IF Truthy(parsedObj.bymonth) \/ Truthy(parsedObj.bymonthday)
               THEN [s1 EXCEPT !.radioValue = Some("BYMONTH")]
               ELSE s1
          ELSE IF parsedObj.freq[1] = MONTHLY
          THEN IF Truthy(parsedObj.bysetpos) \/ Truthy(parsedObj.byweekday)
               THEN [s1 EXCEPT !.radioValue = Some("BYSETPOS")]
               ELSE IF Truthy(parsedObj.bymonthday)
               THEN [s1 EXCEPT !.radioValue = Some("BYMONTHDAY")]
               ELSE s1
          ELSE s1

(* Lines 143-158: setFrequency, then the hint by the priority rules.  An   *)
(* exception that leaves a handler ends the load: the steps after it are   *)
(* not run.                                                                *)
loadFrequency(s, parsedObj) ==
  IF parsedObj.freq = Null THEN s
  ELSE LET s1 == setFrequency(s, parsedObj.freq[1])
       IN IF s1.thrown THEN s1
          ELSE IF parsedObj.freq[1] = YEARLY
          THEN IF Truthy(parsedObj.byweekday) \/ Truthy(parsedObj.bysetpos)
               THEN [s1 EXCEPT !.radioValue = Some("BYSETPOS")]
               ELSE IF Truthy(parsedObj.bymonth) \/ Truthy(parsedObj.bymonthday)
               THEN [s1 EXCEPT !.radioValue = Some("BYMONTH")]
               ELSE s1
          ELSE IF parsedObj.freq[1] = MONTHLY
          THEN IF Truthy(parsedObj.bymonthday)
               THEN [s1 EXCEPT !.radioValue = Some("BYMONTHDAY")]
               ELSE IF Truthy(parsedObj.bysetpos) \/ Truthy(parsedObj.byweekday)
               THEN [s1 EXCEPT !.radioValue = Some("BYSETPOS")]
               ELSE s1
          ELSE s1

(* Lines 159-162. *)
loadStartDate(s, parsedObj) ==
  IF s.thrown THEN s
  ELSE IF parsedObj.dtstart # Null THEN setStartDate(s, parsedObj.dtstart)
  ELSE s

(* Lines 164-169. *)
loadEndDetails(s, parsedObj) ==
  IF s.thrown THEN s
  ELSE IF parsedObj.until # Null
  THEN setEndDetails(s, [endingType |-> "ON", endDate |-> parsedObj.until,
                         occurrences |-> Null])
  ELSE IF TruthyNum(parsedObj.count)
  THEN setEndDetails(s, [endingType |-> "AFTER", occurrences |-> parsedObj.count,
                         endDate |-> Null])
  ELSE s

(* Lines 171-223. *)
loadRepeatDetails(s, parsedObj) ==
  IF s.thrown THEN s
  ELSE setRepeatDetails(s, [interval |-> parsedObj.interval,
                            byDay |-> toByDay(parsedObj.byweekday),
                            byMonthDay |-> toList(parsedObj.bymonthday),
                            byMonth |-> toList(parsedObj.bymonth),
                            bySetPos |-> toList(parsedObj.bysetpos)])

(* Mutant: a text that does not decode is applied as an empty one. *)
setStoreFromRRuleStringLenient(s, rruleString) ==
  LET parsedObj == parseString(rruleString)
      empty == parseString([rruleString EXCEPT
                 !.freq = Null, !.dtstart = Null, !.until = Null, !.count = Null,
                 !.interval = Null, !.bysetpos = <<>>, !.bymonth = <<>>,
                 !.bymonthday = <<>>, !.byday = <<>>])
  IN IF ~parsedObj.ok THEN loadRepeatDetails(s, empty)
     ELSE loadRepeatDetails(
            loadEndDetails(
              loadStartDate(
                loadFrequency(s, parsedObj), parsedObj), parsedObj), parsedObj)

(* Mutant: the descriptor is applied first, the frequency last. *)
setStoreFromRRuleStringDescriptorFirst(s, rruleString) ==
  LET parsedObj == parseString(rruleString)
  IN IF ~parsedObj.ok THEN s
     ELSE loadFrequency(
            loadEndDetails(
              loadStartDate(
                loadRepeatDetails(s, parsedObj), parsedObj), parsedObj), parsedObj)

(* setStoreFromRRuleString: parseString throws before anything is set. *)
setStoreFromRRuleString(s, rruleString) ==
  LET parsedObj == parseString(rruleString)
  IN IF ~parsedObj.ok THEN s
     ELSE loadRepeatDetails(
            loadEndDetails(
              loadStartDate(
                loadFrequency(s, parsedObj), parsedObj), parsedObj), parsedObj)

-----------------------------------------------------------------------------
(* The inputs of the calls. *)
Detail(i, sp, m, md, d) ==
  [interval |-> i, bySetPos |-> sp, byMonth |-> m, byMonthDay |-> md, byDay |-> d]

RepeatDetailsInputs ==
  {baseRepeatDetails,
   Detail(Null, Ints(1), <<>>, <<>>, Days(1)),
   Detail(Some(MaxInterval), <<>>, Ints(MaxLen), Ints(1), Days(1))}

EndDetailsInputs ==
  {EndNever} \cup {EndOn(d) : d \in Dates} \cup {EndAfter(n) : n \in Counts}

StartDateInputs == {Null} \cup {Some(d) : d \in Dates}

(* What the schema may answer: no violation, or violations by path. *)
SchemaOutcomes ==
  {<<>>, <<[path |-> "interval", message |-> "m1"]>>}

(* A text with a clause the decoder does not know, among others it does. *)
MalformedText ==
  [utilBuildRRuleString(YEARLY, Some(1), Detail(Null, Ints(1), <<>>, <<>>, Days(1)),
                        EndOn(1)) EXCEPT !.ok = FALSE]

(* The rule texts loaded: serializations, one text without a frequency    *)
(* clause, and one the decoder rejects.                                    *)
Texts ==
  {utilBuildRRuleString(f, Null, d, EndNever) :
     f \in Frequencies, d \in RepeatDetailsInputs}
  \cup {utilBuildRRuleString(WEEKLY, Some(MaxDate), baseRepeatDetails, e) :
          e \in {EndOn(1), EndAfter(MaxCount)}}
  \cup {utilBuildRRuleString(YEARLY, Null,
                              Detail(Some(1), <<>>, Ints(1), <<>>, <<>>), EndNever)}
  \cup {[utilBuildRRuleString(WEEKLY, Null, baseRepeatDetails, EndNever)
           EXCEPT !.freq = Null]}
  \cup {MalformedText}

-----------------------------------------------------------------------------
(* The state machine: one action per call of a handler. *)
Init ==
  /\ repeatDetails = initialState.repeatDetails
  /\ frequency = initialState.frequency
  /\ startDate = initialState.startDate
  /\ validationErrors = initialState.validationErrors
  /\ endDetails = initialState.endDetails
  /\ radioValue = initialState.radioValue
  /\ RRuleString = Null
  /\ onChange = Null
  /\ notified = <<>>
  /\ lastCall = [op |-> "create", arg |-> <<>>]
  /\ pending = <<>>
  /\ invoked = Null
  /\ thrown = FALSE

(* The store as a call finds it: the notifications observed are per call. *)
AtCall == [Store EXCEPT !.notified = <<>>, !.thrown = FALSE]

(* A call that runs to its end in one step; the validations in flight     *)
(* stay in flight.                                                         *)
Return(s, op, arg) ==
  /\ UNCHANGED <<pending, invoked>>
  /\ repeatDetails' = s.repeatDetails
  /\ frequency' = s.frequency
  /\ startDate' = s.startDate
  /\ validationErrors' = s.validationErrors
  /\ endDetails' = s.endDetails
  /\ RRuleString' = s.RRuleString
  /\ radioValue' = s.radioValue
  /\ onChange' = s.onChange
  /\ notified' = s.notified
  /\ thrown' = s.thrown
  /\ lastCall' = [op |-> op, arg |-> arg]

SetFrequency ==
  \E f \in Frequencies : Return(setFrequency(AtCall, f), "setFrequency", f)

SetStartDate ==
  \E d \in StartDateInputs : Return(setStartDate(AtCall, d), "setStartDate", d)

SetEndDetails ==
  \E e \in EndDetailsInputs : Return(setEndDetails(AtCall, e), "setEndDetails", e)

SetRepeatDetails ==
  \E d \in RepeatDetailsInputs :
    Return(setRepeatDetails(AtCall, d), "setRepeatDetails", d)

SetRadioValue ==
  \E r \in RadioValues : Return(setRadioValue(AtCall, r), "setRadioValue", r)

SetOnChange ==
  \E cb \in Callbacks : Return(setOnChange(AtCall, cb), "setOnChange", cb)

ValidateForm ==
  \E inner \in SchemaOutcomes :
    Return(validateForm(AtCall, inner), "validateForm",
           [inner |-> inner, resolves |-> validateFormResolves(AtCall, inner)])

SetStoreFromRRuleString ==
  \E t \in Texts :
    Return(setStoreFromRRuleString(AtCall, t), "setStoreFromRRuleString", t)

Next ==
  \/ SetFrequency
  \/ SetStartDate
  \/ SetEndDetails
  \/ SetRepeatDetails
  \/ SetRadioValue
  \/ SetOnChange
  \/ ValidateForm
  \/ SetStoreFromRRuleString

Spec == Init /\ [][Next]_vars

(* validateForm as the two steps it is: the call, up to the await, and the *)
(* arrival of the schema's answer.  Other calls, and other validateForm    *)
(* calls, run between the two, and answers arrive in any order.            *)
ValidateFormCall ==
  /\ \/ /\ frequency = 0
        /\ pending' = pending
        /\ invoked' = Some(validateFormCall(AtCall).validationErrors)
     \/ /\ frequency # 0
        /\ Len(pending) < MaxPending
        /\ \E inner \in SchemaOutcomes :
             /\ pending' = Append(pending, inner)
             /\ invoked' = Some(validateFormSettle(AtCall, inner).validationErrors)
  /\ validationErrors' = validateFormCall(AtCall).validationErrors
  /\ notified' = <<>>
  /\ thrown' = FALSE
  /\ lastCall' = [op |-> "validateFormCall", arg |-> <<>>]
  /\ UNCHANGED <<repeatDetails, frequency, startDate, endDetails, RRuleString,
                 radioValue, onChange>>

ValidateFormSettle ==
  \E i \in 1..Len(pending) :
    /\ validationErrors' = validateFormSettle(AtCall, pending[i]).validationErrors
    /\ pending' = [j \in 1..(Len(pending) - 1) |->
                     IF j < i THEN pending[j] ELSE pending[j + 1]]
    /\ notified' = <<>>
    /\ thrown' = FALSE
    /\ lastCall' = [op |-> "validateFormSettle", arg |-> pending[i]]
    /\ UNCHANGED <<repeatDetails, frequency, startDate, endDetails, RRuleString,
                   radioValue, onChange, invoked>>

NextValidate ==
  \/ SetFrequency
  \/ SetStartDate
  \/ SetRepeatDetails
  \/ ValidateFormCall
  \/ ValidateFormSettle

SpecValidate == Init /\ [][NextValidate]_vars

(* The store with a host whose callback throws. *)
SetOnChangeThrowing ==
  \E cb \in ThrowingCallbacks : Return(setOnChange(AtCall, cb), "setOnChange", cb)

NextFail ==
  \/ SetFrequency
  \/ SetStartDate
  \/ SetEndDetails
  \/ SetRepeatDetails
  \/ SetOnChangeThrowing
  \/ SetStoreFromRRuleString

SpecFail == Init /\ [][NextFail]_vars

-----------------------------------------------------------------------------
(* Properties. *)

Serialized == utilBuildRRuleString(frequency, startDate, repeatDetails, endDetails)

Rebuilders == {"setFrequency", "setStartDate", "setEndDetails", "setRepeatDetails"}

Returned(op) == lastCall.op = op

Loaded == Returned("setStoreFromRRuleString") /\ lastCall.arg.ok

(* C1: whenever the derived rule text is defined it is the serialization   *)
(* of the current frequency, start date, descriptor and end condition, and *)
(* it is defined once setFrequency, setStartDate, setEndDetails,           *)
(* setRepeatDetails or a load has returned.                                *)
C1_DerivedTextCurrent ==
  /\ RRuleString # Null => RRuleString[1] = Serialized
  /\ (lastCall.op \in Rebuilders \/ Loaded) => RRuleString # Null

C1_Witness ==
  /\ Returned("setRepeatDetails")
  /\ repeatDetails # baseRepeatDetails
  /\ startDate # Null
  /\ endDetails.endingType = "ON"
  /\ RRuleString = Some(Serialized)

(* C2 as stated: in every state, an end date and a start date that are     *)
(* both set are at least one day apart.                                    *)
C2_EndDateOneDayAfterStart ==
  (endDetails.endDate # Null /\ startDate # Null)
    => endDetails.endDate[1] >= startDate[1] + 1

(* C2, amended: when setStartDate has just returned with a start date, an  *)
(* end date that is set is not earlier than that start date.               *)
C2_EndDateNotBeforeStartAfterSetStartDate ==
  (Returned("setStartDate") /\ lastCall.arg # Null /\ endDetails.endDate # Null)
    => /\ startDate = lastCall.arg
       /\ endDetails.endDate[1] >= startDate[1]

C2_Witness ==
  /\ Returned("setStartDate")
  /\ startDate = Some(MaxDate)
  /\ endDetails.endDate = Some(MaxDate + 1)

(* C3: when setFrequency(f) has returned the frequency is f, the           *)
(* descriptor is the default one and there are no validation errors; and   *)
(* so it is for a call made in any reachable state, with any f.            *)
C3_FrequencyReset ==
  /\ Returned("setFrequency")
       => /\ frequency = lastCall.arg
          /\ repeatDetails = baseRepeatDetails
          /\ validationErrors = {}
  /\ \A f \in Frequencies :
       LET r == setFrequency(AtCall, f)
       IN /\ r.frequency = f
          /\ r.repeatDetails = baseRepeatDetails
          /\ r.validationErrors = {}

C3_Witness ==
  /\ Returned("setFrequency")
  /\ frequency = MONTHLY
  /\ repeatDetails = baseRepeatDetails
  /\ validationErrors = {}
  /\ RRuleString # Null /\ RRuleString[1].freq = Some(MONTHLY)

(* C4: setStartDate(s), called with an end date earlier than s, sets the   *)
(* start date to s and the end date to s plus one day, keeps the end       *)
(* condition's tag and occurrences, and leaves no validation error.        *)
C4_EndDateShifted ==
  \A d \in Dates :
    (endDetails.endDate # Null /\ endDetails.endDate[1] < d)
      => LET r == setStartDate(AtCall, Some(d))
         IN /\ r.startDate = Some(d)
            /\ r.endDetails = [endDetails EXCEPT !.endDate = Some(d + 1)]
            /\ r.validationErrors = {}

C4_Witness ==
  /\ Returned("setStartDate")
  /\ lastCall.arg = Some(MaxDate)
  /\ startDate = Some(MaxDate)
  /\ endDetails = EndOn(MaxDate + 1)
  /\ validationErrors = {}

(* The handlers a load re-applies for a text: setRepeatDetails always,    *)
(* the others when their clause is there.                                  *)
Reapplied(text) ==
  1 + (IF text.freq # Null THEN 1 ELSE 0)
    + (IF text.dtstart # Null THEN 1 ELSE 0)
    + (IF text.until # Null \/ TruthyNum(text.count) THEN 1 ELSE 0)

(* C5 as stated: with a notifier registered, every call of a mutator,      *)
(* setRadioValue and a load included, notifies exactly once, with the      *)
(* serialization of the resulting state.                                   *)
C5_NotifiedExactlyOnce ==
  (onChange # Null
     /\ lastCall.op \in Rebuilders \cup {"setRadioValue", "setStoreFromRRuleString"})
    => notified = <<[cb |-> onChange[1], text |-> Serialized]>>

(* C5, amended: with a notifier registered, setFrequency, setStartDate,    *)
(* setEndDetails and setRepeatDetails notify exactly once with the         *)
(* serialization of the resulting state; setRadioValue does not notify; a  *)
(* load notifies once per handler it re-applies (one to four times), the   *)
(* last time with the serialization of the resulting state, and not at all *)
(* when the text does not decode.                                          *)
C5_NotifiedPerRebuild ==
  onChange # Null =>
    /\ lastCall.op \in Rebuilders
         => notified = <<[cb |-> onChange[1], text |-> Serialized]>>
    /\ Returned("setRadioValue") => notified = <<>>
    /\ Loaded
         => /\ Len(notified) = Reapplied(lastCall.arg)
            /\ Len(notified) \in 1..4
            /\ notified[Len(notified)] = [cb |-> onChange[1], text |-> Serialized]
    /\ (Returned("setStoreFromRRuleString") /\ ~lastCall.arg.ok) => notified = <<>>

C5_Witness ==
  /\ Loaded
  /\ onChange # Null
  /\ Len(notified) = 4
  /\ notified[4].text = Serialized
  /\ notified[1].text # Serialized

(* C6: the notifier is one slot.  Every notification of a call goes to the *)
(* callback registered at that time, and there is none without a           *)
(* registration; setOnChange stores the callback without rebuilding the    *)
(* rule text or notifying; after a registration replaces another, a        *)
(* rebuild notifies the new callback only.                                 *)
C6_NotifierSingleSlot ==
  /\ \A i \in 1..Len(notified) : onChange # Null /\ notified[i].cb = onChange[1]
  /\ (onChange # Null /\ lastCall.op \in Rebuilders) => Len(notified) = 1
  /\ \A cb \in Callbacks :
       LET r == setOnChange(AtCall, cb)
       IN /\ r = [AtCall EXCEPT !.onChange = Some(cb)]
          /\ \A f \in Frequencies :
               LET q == setFrequency(r, f)
               IN q.notified = <<[cb |-> cb, text |-> q.RRuleString[1]]>>

C6_Witness ==
  /\ Returned("setEndDetails")
  /\ onChange = Some("cb2")
  /\ notified = <<[cb |-> "cb2", text |-> Serialized]>>

(* The end condition a rule text states. *)
EndConditionOf(text) ==
  IF text.until # Null THEN EndOn(text.until[1])
  ELSE IF text.count # Null THEN EndAfter(text.count[1])
  ELSE EndNever

(* C7: after a load the end condition is the one the text states: ON its   *)
(* termination date, else AFTER its count, else NEVER.                     *)
C7_EndConditionFromText ==
  Loaded => endDetails = EndConditionOf(lastCall.arg)

(* The hint the priority rules give for a text, when one applies. *)
Has(clause) == Len(clause) > 0

HintRuleApplies(text) ==
  /\ text.freq \in {Some(YEARLY), Some(MONTHLY)}
  /\ Has(text.byday) \/ Has(text.bysetpos) \/ Has(text.bymonth) \/ Has(text.bymonthday)
  /\ text.freq = Some(MONTHLY)
       => Has(text.bymonthday) \/ Has(text.bysetpos) \/ Has(text.byday)

ExpectedHint(text) ==
  IF text.freq = Some(YEARLY)
  THEN IF Has(text.byday) \/ Has(text.bysetpos) THEN "BYSETPOS" ELSE "BYMONTH"
  ELSE IF Has(text.bymonthday) THEN "BYMONTHDAY" ELSE "BYSETPOS"

(* YEARLY and MONTHLY texts with every combination of by-clauses, and with *)
(* a weekday that carries an ordinal.                                      *)
HintTexts ==
  LET plain == {utilBuildRRuleString(f, Null, Detail(Some(1), sp, m, md, d), EndNever) :
                  f \in {YEARLY, MONTHLY}, sp \in {<<>>, Ints(1)},
                  m \in {<<>>, Ints(MaxLen)}, md \in {<<>>, Ints(1)},
                  d \in {<<>>, Days(MaxLen)}}
  IN plain \cup {[t EXCEPT !.byday = <<[wd |-> "TU", n |-> 2]>>] : t \in plain}

(* C8: after a load of a YEARLY or MONTHLY text the hint is the one the    *)
(* priority rules give, for every combination of by-clauses to which a     *)
(* rule applies and whatever the store held before.                        *)
C8_HintByPriority ==
  /\ (Loaded /\ HintRuleApplies(lastCall.arg))
       => radioValue = Some(ExpectedHint(lastCall.arg))
  /\ \A t \in HintTexts :
       HintRuleApplies(t)
         => setStoreFromRRuleString(AtCall, t).radioValue = Some(ExpectedHint(t))

C8_Witness ==
  /\ Loaded
  /\ lastCall.arg.freq = Some(MONTHLY)
  /\ Has(lastCall.arg.bymonthday) /\ Has(lastCall.arg.byday)
  /\ radioValue = Some("BYMONTHDAY")

(* C9: when a load has returned, and its text is the serialization of a    *)
(* frequency, start date, descriptor and end condition that the setters    *)
(* accept, the store holds these four, whatever it held before.            *)
C9_RoundTrip ==
  Loaded =>
    \A f \in Frequencies, sd \in StartDateInputs,
       d \in RepeatDetailsInputs, e \in EndDetailsInputs :
      utilBuildRRuleString(f, sd, d, e) = lastCall.arg
        => /\ frequency = f
           /\ startDate = sd
           /\ repeatDetails = d
           /\ endDetails = e

(* C10: a load of a text that does not decode changes no field of the      *)
(* store and notifies nobody.                                              *)
C10_DecodeFailureLeavesStore ==
  /\ \A t \in Texts :
       setStoreFromRRuleString(AtCall, [t EXCEPT !.ok = FALSE]) = AtCall
  /\ (Returned("setStoreFromRRuleString") /\ ~lastCall.arg.ok) => notified = <<>>

C10_Witness ==
  /\ Returned("setStoreFromRRuleString")
  /\ ~lastCall.arg.ok
  /\ onChange # Null
  /\ notified = <<>>
  /\ RRuleString # Null
  /\ repeatDetails # baseRepeatDetails
  /\ frequency # YEARLY

(* The error map the claims describe for a list of violations: for each   *)
(* path the message of its last violation.                                 *)
ExpectedErrors(inner) ==
  {<<inner[i].path, inner[i].message>> :
     i \in {k \in 1..Len(inner) :
              \A j \in (k + 1)..Len(inner) : inner[j].path # inner[k].path}}

(* The lists of at most MaxViolations violations: two paths, one of them   *)
(* with two messages.                                                      *)
Violations ==
  {[path |-> "interval", message |-> "m1"], [path |-> "interval", message |-> "m2"],
   [path |-> "byDay", message |-> "m1"]}

ViolationLists ==
  UNION {[1..n -> Violations] : n \in 0..MaxViolations}

(* C11: when validateForm has settled, it resolved true and left no error  *)
(* if the schema found no violation; otherwise it resolved false and left  *)
(* one entry per offending path, with that path's last message.            *)
C11_ValidateFormBySchema ==
  Returned("validateForm") =>
    IF lastCall.arg.inner = <<>>
    THEN lastCall.arg.resolves = "true" /\ validationErrors = {}
    ELSE /\ lastCall.arg.resolves = "false"
         /\ validationErrors = ExpectedErrors(lastCall.arg.inner)

C13_ErrorsOfLastValidation ==
  pending = <<>>
    => \/ validationErrors = {}
       \/ invoked # Null /\ validationErrors = invoked[1]

(* C14: a call in which the notifier fails leaves every field of the store *)
(* as it was before the call.                                              *)
C14_FailureLeavesStore ==
  [][thrown' => UNCHANGED <<repeatDetails, frequency, startDate, validationErrors,
                            endDetails, RRuleString, radioValue, onChange>>]_vars

(* The descriptor a rule text decodes to. *)
DecodedDetails(text) == loadRepeatDetails(AtCall, parseString(text)).repeatDetails

(* The setters a load applies for a text, in the order frequency, hint,    *)
(* start date, end condition, descriptor, from the store s on.             *)
AppliedInOrder(s, text) ==
  LET a == IF text.freq # Null THEN setFrequency(s, text.freq[1]) ELSE s
      b == IF HintRuleApplies(text) THEN setRadioValue(a, Some(ExpectedHint(text)))
           ELSE a
      c == IF text.dtstart # Null THEN setStartDate(b, text.dtstart) ELSE b
      d == IF text.until # Null THEN setEndDetails(c, EndOn(text.until[1]))
           ELSE IF TruthyNum(text.count) THEN setEndDetails(c, EndAfter(text.count[1]))
           ELSE c
  IN setRepeatDetails(d, DecodedDetails(text))

(* The store of a load when its last handler, setRepeatDetails, is called. *)
BeforeSetRepeatDetails(s, text) ==
  LET parsedObj == parseString(text)
  IN loadEndDetails(loadStartDate(loadFrequency(s, parsedObj), parsedObj), parsedObj)

(* Texts with every clause: a frequency with a hint, a start date, an end  *)
(* condition and by-clauses.                                               *)
FullTexts ==
  {utilBuildRRuleString(YEARLY, Some(1), Detail(Some(MaxInterval), <<>>, Ints(1), Ints(1), <<>>),
                        EndOn(MaxDate)),
   utilBuildRRuleString(MONTHLY, Some(1), Detail(Some(MaxInterval), <<>>, Ints(1), Ints(1), <<>>),
                        EndAfter(MaxCount))}

(* C15 as stated: a load that returns leaves the descriptor the text       *)
(* decodes to, and when its last handler, setRepeatDetails, is called the  *)
(* hint is still the one of before the load (it is applied after the four  *)
(* handlers).                                                              *)
C15_HintAppliedLast ==
  [][(lastCall'.op = "setStoreFromRRuleString" /\ lastCall'.arg.ok)
       => /\ repeatDetails' = DecodedDetails(lastCall'.arg)
          /\ BeforeSetRepeatDetails(AtCall, lastCall'.arg).radioValue = radioValue]_vars

(* C15, amended: a load applies setFrequency, then the hint, then          *)
(* setStartDate, setEndDetails and setRepeatDetails: its store and its     *)
(* notifications are those of these setters called in that order, from any *)
(* store and for any text that decodes.  So the descriptor it leaves is    *)
(* the decoded one, the hint it leaves is in place when setRepeatDetails   *)
(* is called, and the last notification is the serialization of the store  *)
(* it leaves.                                                              *)
C15_LoadOrder ==
  /\ \A t \in FullTexts \cup {x \in Texts : x.freq = Null \/ x.dtstart # Null} :
       t.ok => LET r == setStoreFromRRuleString(AtCall, t)
               IN /\ r = AppliedInOrder(AtCall, t)
                  /\ BeforeSetRepeatDetails(AtCall, t).radioValue = r.radioValue
  /\ Loaded
       => /\ repeatDetails = DecodedDetails(lastCall.arg)
          /\ onChange # Null
               => notified[Len(notified)] = [cb |-> onChange[1], text |-> Serialized]

C15_Witness ==
  /\ Loaded
  /\ onChange # Null
  /\ HintRuleApplies(lastCall.arg)
  /\ radioValue = Some(ExpectedHint(lastCall.arg))
  /\ repeatDetails # baseRepeatDetails
  /\ Len(notified) = 2
  /\ notified[1].text.bymonth = <<>> /\ notified[1].text.interval = Some(1)
  /\ notified[2].text = Serialized

(* C16: after a load, a descriptor field whose clause the text does not    *)
(* have holds its default (the default interval, the empty list), whatever *)
(* the descriptor was before; a by-clause with one value gives the list of *)
(* that value and a by-clause with a list gives that list.                 *)
C16_AbsentClausesDefault ==
  Loaded =>
    LET text == lastCall.arg
    IN /\ text.interval = Null => repeatDetails.interval = baseRepeatDetails.interval
       /\ repeatDetails.bySetPos = text.bysetpos
       /\ repeatDetails.byMonth = text.bymonth
       /\ repeatDetails.byMonthDay = text.bymonthday
       /\ repeatDetails.byDay = [i \in 1..Len(text.byday) |-> text.byday[i].wd]

(* C17: setEndDetails(e) stores e as it is, an end date before the start   *)
(* date included, and leaves the frequency, the start date, the            *)
(* descriptor, the hint and the validation errors; the end condition then  *)
(* stays as stored through setFrequency, setRepeatDetails, setRadioValue,  *)
(* setOnChange and validateForm.                                           *)
C17_EndConditionStoredAsIs ==
  [][/\ lastCall'.op = "setEndDetails"
          => /\ endDetails' = lastCall'.arg
             /\ UNCHANGED <<frequency, startDate, repeatDetails, radioValue,
                            validationErrors>>
     /\ lastCall'.op \in {"setFrequency", "setRepeatDetails", "setRadioValue",
                          "setOnChange", "validateForm"}
          => endDetails' = endDetails]_vars

C17_Witness ==
  /\ Returned("setEndDetails")
  /\ startDate = Some(MaxDate)
  /\ endDetails = EndOn(1)
  /\ validationErrors # {}
  /\ repeatDetails # baseRepeatDetails

(* C18: setRepeatDetails(desc) replaces the descriptor with desc and       *)
(* leaves the validation errors as they were, and the frequency, the start *)
(* date, the end condition and the hint; setFrequency and setStartDate     *)
(* leave no validation error.                                              *)
C18_DescriptorKeepsErrors ==
  [][/\ lastCall'.op = "setRepeatDetails"
          => /\ repeatDetails' = lastCall'.arg
             /\ UNCHANGED <<validationErrors, frequency, startDate, endDetails,
                            radioValue>>
     /\ lastCall'.op \in {"setFrequency", "setStartDate"}
          => validationErrors' = {}]_vars

C18_Witness ==
  /\ Returned("setRepeatDetails")
  /\ repeatDetails = lastCall.arg
  /\ repeatDetails # baseRepeatDetails
  /\ validationErrors = {<<"interval", "m1">>}

(* C19: setRadioValue(h) changes the hint and nothing else: not the        *)
(* frequency, start date, descriptor, end condition, validation errors or  *)
(* rule text; it does not rebuild the rule text and does not notify.       *)
C19_HintOnly ==
  [][lastCall'.op = "setRadioValue"
       => /\ radioValue' = lastCall'.arg
          /\ notified' = <<>>
          /\ UNCHANGED <<frequency, startDate, repeatDetails, endDetails,
                         validationErrors, RRuleString, onChange>>]_vars

C19_Witness ==
  /\ Returned("setRadioValue")
  /\ radioValue = Some("BYSETPOS")
  /\ onChange # Null
  /\ notified = <<>>
  /\ RRuleString = Some(Serialized)
  /\ frequency = WEEKLY

(* C20: the hint is changed by setRadioValue and by a load of a YEARLY or  *)
(* MONTHLY text to which a rule applies, and by nothing else: setFrequency, *)
(* setStartDate, setEndDetails, setRepeatDetails, setOnChange, validateForm *)
(* and a load of any other text leave it.                                  *)
C20_HintChangedOnlyByHintSetters ==
  [][radioValue' # radioValue
       => \/ lastCall'.op = "setRadioValue"
          \/ /\ lastCall'.op = "setStoreFromRRuleString"
             /\ lastCall'.arg.ok
             /\ HintRuleApplies(lastCall'.arg)]_vars

C20_Witness ==
  /\ Returned("setFrequency")
  /\ frequency = WEEKLY
  /\ radioValue = Some("BYMONTH")

=============================================================================
